---- MODULE Spec2Model ----
(***************************************************************************)
(* Model of labelme/shape.py: class Shape, the editable point list          *)
(* (self.points), its numeric mirror (self.poly_array, a numpy array of     *)
(* rows [x, y]) and the hit-testing routines nearestVertex / nearestEdge.   *)
(*                                                                          *)
(* Conventions                                                              *)
(*  - a point (QPointF) and a row of poly_array are both a pair <<x, y>>;   *)
(*    coordinates are integers (the arithmetic of the model is exact).      *)
(*  - Python's None is the empty tuple, a present value v is <<v>>.         *)
(*    poly_array = None is the attribute before init_poly_array ran,        *)
(*    poly_array = <<rows>> is an array whose rows are the sequence rows.   *)
(*  - Python indices are 0-based, TLA+ sequences 1-based: Python's s[i] is  *)
(*    s[i + 1].                                                             *)
(*  - an epsilon is a positive rational <<num, den>>.                       *)
(*  - numpy semantics are those of numpy >= 1.19 (np.delete on a 0-d array  *)
(*    with axis=0 raises AxisError, a subclass of IndexError).              *)
(*  - op, args, ret, err record the last call, its arguments, the value it  *)
(*    returned and the exception it raised ("none" when it returned).       *)
(***************************************************************************)
EXTENDS Integers, Sequences, FiniteSets, TLC

VARIABLES points, poly_array, _closed, prev_val, shape_type,
          _highlightIndex, _highlightMode, op, args, ret, err, logged

vars == <<points, poly_array, _closed, prev_val, shape_type,
          _highlightIndex, _highlightMode, op, args, ret, err, logged>>

(* ------------------------------ bounds --------------------------------- *)

\* Longest point list built under Spec (addPoint / insertPoint stop there).
MaxPoints == 3

\* Longest point list built under SpecHit.
MaxHitPoints == 4

(* --------------------------- Python values ----------------------------- *)

None == <<>>

Some(v) == <<v>>

NEAR_VERTEX == 1

MOVE_VERTEX == 0

Min2(a, b) == IF a < b THEN a ELSE b

Max2(a, b) == IF a > b THEN a ELSE b

\* QPointF.__add__
PointAdd(p, q) == <<p[1] + q[1], p[2] + q[2]>>

\* [point.x(), point.y()]
Row(p) == <<p[1], p[2]>>

\* A list index i that s[i] accepts for a list of length n.
PyIndexOK(i, n) == i >= 0 - n /\ i <= n - 1

\* The 1-based position s[i] denotes (i accepted by PyIndexOK).
PyPos(i, n) == IF i < 0 THEN i + n + 1 ELSE i + 1

\* list.insert(i, v): never raises, an index beyond either end is clamped.
ListInsert(s, i, v) ==
    LET n == Len(s)
        k == IF i < 0 THEN Max2(i + n, 0) ELSE Min2(i, n)
    IN SubSeq(s, 1, k) \o <<v>> \o SubSeq(s, k + 1, n)

\* The sequence s without its element at 1-based position k.
RemoveAt(s, k) == SubSeq(s, 1, k - 1) \o SubSeq(s, k + 1, Len(s))

\* s[:-1]
DropLast(s) == SubSeq(s, 1, Len(s) - 1)

(* ------------------------- the coords buffer --------------------------- *)

\* np.array([[p.x(), p.y()] for p in self.points])
RowsOf(pts) == [k \in 1..Len(pts) |-> Row(pts[k])]

\* The rows of poly_array (no rows while it is None).
Rows(pa) == IF pa = None THEN <<>> ELSE pa[1]

\* len(arr.ravel()) as np.insert(arr, i, values) sees it with axis=None:
\* asarray(None) is a 0-d object array, which ravels to one element.
RavelSize(pa) == IF pa = None THEN 1 ELSE 2 * Len(pa[1])

\* np.insert(arr, i, values) raises IndexError for i outside [-N, N].
NpInsertRaises(pa, i) == i < 0 - RavelSize(pa) \/ i > RavelSize(pa)

\* np.delete(arr, i, axis=0) raises IndexError (AxisError on a 0-d array).
NpDeleteRaises(pa, i) == pa = None \/ ~PyIndexOK(i, Len(pa[1]))

init_poly_array(pts) == Some(RowsOf(pts))

\* coords mirrors points: as many rows as points, row k = (x, y) of point k.
Mirror(pts, pa) == Rows(pa) = RowsOf(pts)

(* ------------------------------ inputs --------------------------------- *)

\* The points handed to addPoint, insertPoint and __setitem__ under Spec.
PointSet == {<<0, 0>>, <<10, 0>>, <<10, 10>>}

\* The offsets handed to moveBy and moveVertexBy.
OffsetSet == {<<10, 0>>, <<0, 10>>, <<-10, 0>>}

\* The coordinates a moved point may take: a move that leaves PointSet is not
\* taken (it would make the state space unbounded).
InBox(p) == p \in PointSet

\* The indices handed to insertPoint, removePoint, moveVertexBy, __setitem__:
\* one below 0 (Python reads it from the end) up to MaxPoints.
IndexSet == (0 - 1)..MaxPoints

(* --------------------------- construction ------------------------------ *)

\* Shape(): __init__ with every argument left at its default.
Init ==
    /\ points = <<>>
    /\ poly_array = None
    /\ _closed = FALSE
    /\ prev_val = None
    /\ shape_type = "polygon"
    /\ _highlightIndex = None
    /\ _highlightMode = NEAR_VERTEX
    /\ op = "__init__"
    /\ args = <<>>
    /\ ret = None
    /\ err = "none"
    /\ logged = FALSE

\* What the point and coords operations leave alone.
Rest == UNCHANGED <<prev_val, shape_type, _highlightIndex, _highlightMode>>

\* The record of a call that returned r.
Returned(name, a, r) ==
    /\ op' = name
    /\ args' = a
    /\ ret' = r
    /\ err' = "none"
    /\ logged' = FALSE

\* The record of a call that raised e.
Raised(name, a, e) ==
    /\ op' = name
    /\ args' = a
    /\ ret' = None
    /\ err' = e
    /\ logged' = FALSE

(* ------------------ point and coords buffer operations ------------------ *)

close ==
    /\ _closed' = TRUE
    /\ UNCHANGED <<points, poly_array>>
    /\ Rest
    /\ Returned("close", <<>>, None)

setOpen ==
    /\ _closed' = FALSE
    /\ UNCHANGED <<points, poly_array>>
    /\ Rest
    /\ Returned("setOpen", <<>>, None)

\* A faulty variant of addPoint's test, comparing with the last point.
AddPointClosesLast(pts, point) == pts # <<>> /\ point = pts[Len(pts)]

\* addPoint's test: self.points and point == self.points[0]
AddPointCloses(pts, point) == pts # <<>> /\ point = pts[1]

\* np.append(self.poly_array, [[x, y]], axis=0), or init_poly_array() when
\* the buffer is still None (pts is the list after the append).
AddPointArray(pa, pts, point) ==
    IF pa = None THEN init_poly_array(pts) ELSE Some(Append(pa[1], Row(point)))

addPoint(point) ==
    /\ IF AddPointCloses(points, point)
       THEN /\ _closed' = TRUE
            /\ UNCHANGED <<points, poly_array>>
       ELSE /\ points' = Append(points, point)
            /\ poly_array' = AddPointArray(poly_array, Append(points, point), point)
            /\ UNCHANGED _closed
    /\ Rest
    /\ Returned("addPoint", [point |-> point], None)

\* popPoint: self.poly_array[:-1] raises TypeError on None, before the pop.
popPoint ==
    /\ IF points = <<>>
       THEN /\ UNCHANGED <<points, poly_array>>
            /\ Returned("popPoint", <<>>, None)
       ELSE IF poly_array = None
       THEN /\ UNCHANGED <<points, poly_array>>
            /\ Raised("popPoint", <<>>, "TypeError")
       ELSE /\ poly_array' = Some(DropLast(poly_array[1]))
            /\ points' = DropLast(points)
            /\ Returned("popPoint", <<>>, Some(points[Len(points)]))
    /\ UNCHANGED _closed
    /\ Rest

\* insertPoint's second statement, np.insert(self.poly_array, i, [x, y]):
\* the array it returns is dropped, self.poly_array is not assigned.

InsertPointArray(pa, i, point) == pa

insertPoint(i, point) ==
    /\ points' = ListInsert(points, i, point)
    /\ poly_array' = InsertPointArray(poly_array, i, point)
    /\ UNCHANGED _closed
    /\ Rest
    /\ IF NpInsertRaises(poly_array, i)
       THEN Raised("insertPoint", [i |-> i, point |-> point], "IndexError")
       ELSE Returned("insertPoint", [i |-> i, point |-> point], None)

\* removePoint: points.pop(i), then np.delete(poly_array, i, axis=0); an
\* IndexError of either is caught and logged.
removePoint(i) ==
    /\ IF ~PyIndexOK(i, Len(points))
       THEN /\ UNCHANGED <<points, poly_array>>
            /\ logged' = TRUE
       ELSE /\ points' = RemoveAt(points, PyPos(i, Len(points)))
            /\ IF NpDeleteRaises(poly_array, i)
               THEN /\ UNCHANGED poly_array
                    /\ logged' = TRUE
               ELSE /\ poly_array' =
                         Some(RemoveAt(poly_array[1], PyPos(i, Len(poly_array[1]))))
                    /\ logged' = FALSE
    /\ op' = "removePoint"
    /\ args' = [i |-> i]
    /\ ret' = None
    /\ err' = "none"
    /\ UNCHANGED _closed
    /\ Rest

\* moveBy: the new list is assigned before None + array raises TypeError.
moveBy(offset) ==
    /\ \A k \in 1..Len(points) : InBox(PointAdd(points[k], offset))
    /\ \A k \in 1..Len(Rows(poly_array)) : InBox(PointAdd(Rows(poly_array)[k], offset))
    /\ points' = [k \in 1..Len(points) |-> PointAdd(points[k], offset)]
    /\ IF poly_array = None
       THEN /\ UNCHANGED poly_array
            /\ Raised("moveBy", [offset |-> offset], "TypeError")
       ELSE /\ poly_array' =
                 Some([k \in 1..Len(poly_array[1]) |-> PointAdd(poly_array[1][k], offset)])
            /\ Returned("moveBy", [offset |-> offset], None)
    /\ UNCHANGED _closed
    /\ Rest

\* moveVertexBy: self.points[i] is assigned before self.poly_array[i] is read.
moveVertexBy(i, offset) ==
    /\ LET a == [i |-> i, offset |-> offset]
       IN IF ~PyIndexOK(i, Len(points))
          THEN /\ UNCHANGED <<points, poly_array>>
               /\ Raised("moveVertexBy", a, "IndexError")
          ELSE LET k == PyPos(i, Len(points))
               IN /\ InBox(PointAdd(points[k], offset))
                  /\ points' = [points EXCEPT ![k] = PointAdd(points[k], offset)]
                  /\ IF poly_array = None
                     THEN /\ UNCHANGED poly_array
                          /\ Raised("moveVertexBy", a, "TypeError")
                     ELSE IF ~PyIndexOK(i, Len(poly_array[1]))
                     THEN /\ UNCHANGED poly_array
                          /\ Raised("moveVertexBy", a, "IndexError")
                     ELSE LET r == PyPos(i, Len(poly_array[1]))
                          IN /\ InBox(PointAdd(poly_array[1][r], offset))
                             /\ poly_array' = Some([poly_array[1] EXCEPT
                                    ![r] = PointAdd(poly_array[1][r], offset)])
                             /\ Returned("moveVertexBy", a, None)
    /\ UNCHANGED _closed
    /\ Rest

\* __setitem__: self.points[key] = value, and nothing else.

SetItemArray(pa, key, value) == pa

setitem(key, value) ==
    /\ IF ~PyIndexOK(key, Len(points))
       THEN /\ UNCHANGED <<points, poly_array>>
            /\ Raised("__setitem__", [key |-> key, value |-> value], "IndexError")
       ELSE /\ points' = [points EXCEPT ![PyPos(key, Len(points))] = value]
            /\ poly_array' = SetItemArray(poly_array, key, value)
            /\ Returned("__setitem__", [key |-> key, value |-> value], None)
    /\ UNCHANGED _closed
    /\ Rest

\* paint, as far as it changes the shape: for the polygon-like types (the
\* final else of its if chain) it rebuilds the buffer with init_poly_array();
\* rectangle and circle assert one or two points.
paint ==
    /\ IF points = <<>> \/ shape_type = "linestrip"
       THEN /\ UNCHANGED poly_array
            /\ Returned("paint", <<>>, None)
       ELSE IF shape_type \in {"rectangle", "circle"}
       THEN /\ UNCHANGED poly_array
            /\ IF Len(points) \in {1, 2}
               THEN Returned("paint", <<>>, None)
               ELSE Raised("paint", <<>>, "AssertionError")
       ELSE /\ poly_array' = init_poly_array(points)
            /\ Returned("paint", <<>>, None)
    /\ UNCHANGED <<points, _closed>>
    /\ Rest

\* A call that may lengthen the point list is taken only below the bound max.
MayAdd(point, max) == AddPointCloses(points, point) \/ Len(points) < max

Next ==
    \/ close
    \/ setOpen
    \/ \E point \in PointSet : MayAdd(point, MaxPoints) /\ addPoint(point)
    \/ popPoint
    \/ \E i \in IndexSet, point \in PointSet :
           Len(points) < MaxPoints /\ insertPoint(i, point)
    \/ \E i \in IndexSet : removePoint(i)
    \/ \E offset \in OffsetSet : moveBy(offset)
    \/ \E i \in IndexSet, offset \in OffsetSet : moveVertexBy(i, offset)
    \/ \E key \in IndexSet, value \in PointSet : setitem(key, value)
    \/ paint

Spec == Init /\ [][Next]_vars

\* The six operations that edit points and coords together, in any order.
NextMutate ==
    \/ \E point \in PointSet : MayAdd(point, MaxPoints) /\ addPoint(point)
    \/ popPoint
    \/ \E i \in IndexSet, point \in PointSet :
           Len(points) < MaxPoints /\ insertPoint(i, point)
    \/ \E i \in IndexSet : removePoint(i)
    \/ \E offset \in OffsetSet : moveBy(offset)
    \/ \E i \in IndexSet, offset \in OffsetSet : moveVertexBy(i, offset)

SpecMutate == Init /\ [][NextMutate]_vars

\* A shape built by addPoint calls alone, then insertPoint(i, p) for an i in
\* 0..len(points), then removePoint(i) for the same i.
NextRoundTrip ==
    \/ /\ op \in {"__init__", "addPoint"}
       /\ \E point \in PointSet : MayAdd(point, MaxPoints) /\ addPoint(point)
    \/ /\ op \in {"__init__", "addPoint"}
       /\ \E i \in 0..Len(points), point \in PointSet : insertPoint(i, point)
    \/ /\ op = "insertPoint"
       /\ removePoint(args.i)

SpecRoundTrip == Init /\ [][NextRoundTrip]_vars

(* ----------------------------- hit testing ------------------------------ *)

Sq(x) == x * x

\* One entry of np.sum((self.poly_array - [x, y]) ** 2, axis=1).
Dist2(row, point) == Sq(row[1] - point[1]) + Sq(row[2] - point[2])

\* dist, the squared distance of every row to point.
DistOf(rows, point) == [k \in 1..Len(rows) |-> Dist2(rows[k], point)]

\* A faulty variant of the scan below, keeping the last smallest entry.
RECURSIVE ArgMinScanLast(_, _)
ArgMinScanLast(dist, k) ==
    IF k = 1 THEN 1
    ELSE LET b == ArgMinScanLast(dist, k - 1)
         IN IF dist[k] <= dist[b] THEN k ELSE b

\* np.argmin scans left to right and keeps the first smallest entry; the
\* scan holds the best position found in 1..k (1-based).
RECURSIVE ArgMinScan(_, _)
ArgMinScan(dist, k) ==
    IF k = 1 THEN 1
    ELSE LET b == ArgMinScan(dist, k - 1)
         IN IF dist[k] < dist[b] THEN k ELSE b

\* A faulty variant of np.argmin: the last occurrence of the minimum.
NpArgMinLast(dist) == ArgMinScanLast(dist, Len(dist)) - 1

\* np.argmin(dist), 0-based.
NpArgMin(dist) == ArgMinScan(dist, Len(dist)) - 1

\* np.min(dist)
NpMin(dist) == dist[ArgMinScan(dist, Len(dist))]

\* np.sqrt(d2) < epsilon, for epsilon = num / den > 0.
SqrtLess(d2, epsilon) == d2 * Sq(epsilon[2]) < Sq(epsilon[1])

\* nearestVertex: None - array raises TypeError, np.min of no rows ValueError.
\* (self.component_dist, a scratch attribute nothing else reads, is left out.)
nearestVertex(point, epsilon) ==
    /\ LET a == [point |-> point, epsilon |-> epsilon]
       IN IF poly_array = None THEN Raised("nearestVertex", a, "TypeError")
          ELSE IF poly_array[1] = <<>> THEN Raised("nearestVertex", a, "ValueError")
          ELSE LET dist == DistOf(poly_array[1], point)
               IN IF SqrtLess(NpMin(dist), epsilon)
                  THEN Returned("nearestVertex", a, <<Some(NpArgMin(dist)), None>>)
                  ELSE Returned("nearestVertex", a, <<None, Some(NpArgMin(dist))>>)
    /\ UNCHANGED <<points, poly_array, _closed>>
    /\ Rest

\* labelme.utils.distancetoline(point, line) <= epsilon: the distance from
\* point to the segment line = <<a, b>>, compared without taking roots.
distancetoline_le(point, line, epsilon) ==
    LET a == line[1]
        b == line[2]
        ab == <<b[1] - a[1], b[2] - a[2]>>
        ap == <<point[1] - a[1], point[2] - a[2]>>
        bp == <<point[1] - b[1], point[2] - b[2]>>
        len2 == Sq(ab[1]) + Sq(ab[2])
        dotA == ap[1] * ab[1] + ap[2] * ab[2]
        dotB == 0 - (bp[1] * ab[1] + bp[2] * ab[2])
        cross == ab[1] * ap[2] - ab[2] * ap[1]
        num2 == Sq(epsilon[1])
        den2 == Sq(epsilon[2])
    IN IF len2 = 0 \/ dotA < 0 THEN (Sq(ap[1]) + Sq(ap[2])) * den2 <= num2
       ELSE IF dotB < 0 THEN (Sq(bp[1]) + Sq(bp[2])) * den2 <= num2
       ELSE Sq(cross) * den2 <= num2 * len2

\* rows[a:b], a Python slice: negative bounds count from the end, both are
\* clamped to the array.
PySlice(rows, a, b) ==
    LET n == Len(rows)
        lo == IF a < 0 THEN Max2(a + n, 0) ELSE Min2(a, n)
        hi == IF b < 0 THEN Max2(b + n, 0) ELSE Min2(b, n)
    IN SubSeq(rows, lo + 1, hi)

\* The wraparound edge, np.array([poly_array[-1], poly_array[0]]).
WrapLine(rows) == <<rows[Len(rows)], rows[1]>>

\* The forward index after the if chain: i = i % lenght in its else only.
PosIndex(rows, i) == IF i = 0 \/ i = Len(rows) THEN i ELSE i % Len(rows)

\* line_pos for the loop's forward index i.
LinePos(rows, i) ==
    IF i = 0 \/ i = Len(rows) THEN WrapLine(rows)
    ELSE PySlice(rows, (i % Len(rows)) - 1, (i % Len(rows)) + 1)

\* line_neg for the loop's backward index j.
LineNeg(rows, j) ==
    IF j > 0 \/ j < 0 - 1 THEN PySlice(rows, j - 1, j + 1)
    ELSE IF j = 0 THEN WrapLine(rows)
    ELSE PySlice(rows, 0, 2)

\* int(lenght / 2), the number of steps of the loop.
HalfLen(rows) == Len(rows) \div 2

\* A faulty variant of the step's if / elif, testing dist_j before dist_i.
EdgeStepNegFirst(i, j, hit_i, hit_j) ==
    IF hit_j THEN [found |-> TRUE, ret |-> j, prev |-> i]
    ELSE IF hit_i THEN [found |-> TRUE, ret |-> i, prev |-> i]
    ELSE [found |-> FALSE]

\* The if / elif that ends a step of the loop: what is returned and what is
\* cached in self.prev_val (hit_i: dist_i <= epsilon, hit_j: dist_j <= epsilon).
EdgeStep(i, j, hit_i, hit_j) ==
    IF hit_i THEN [found |-> TRUE, ret |-> i, prev |-> i]
    ELSE IF hit_j THEN [found |-> TRUE, ret |-> j, prev |-> i]
    ELSE [found |-> FALSE]

\* The loop of nearestEdge from its step s on (i = m + s, j = m - s).
RECURSIVE EdgeSearch(_, _, _, _, _)
EdgeSearch(rows, point, epsilon, m, s) ==
    IF s >= HalfLen(rows) THEN [found |-> FALSE]
    ELSE LET r == EdgeStep(PosIndex(rows, m + s), m - s,
                     distancetoline_le(point, LinePos(rows, m + s), epsilon),
                     distancetoline_le(point, LineNeg(rows, m - s), epsilon))
         IN IF r.found THEN r ELSE EdgeSearch(rows, point, epsilon, m, s + 1)

\* nearestEdge. near_second is the clock test of its first statement,
\* np.abs(t - np.round(t)) <= 0.005 for t = time.time().
nearestEdge(point, epsilon, minDistIndex, near_second) ==
    /\ LET a == [point |-> point, epsilon |-> epsilon,
                 minDistIndex |-> minDistIndex, near_second |-> near_second]
       IN IF near_second /\ prev_val # None
          THEN /\ Returned("nearestEdge", a, prev_val)
               /\ UNCHANGED prev_val
          ELSE IF poly_array = None
          THEN /\ Raised("nearestEdge", a, "TypeError")
               /\ UNCHANGED prev_val
          ELSE LET r == EdgeSearch(poly_array[1], point, epsilon, minDistIndex, 0)
               IN IF r.found
                  THEN /\ Returned("nearestEdge", a, Some(r.ret))
                       /\ prev_val' = Some(r.prev)
                  ELSE /\ Returned("nearestEdge", a, None)
                       /\ UNCHANGED prev_val
    /\ UNCHANGED <<points, poly_array, _closed>>
    /\ UNCHANGED <<shape_type, _highlightIndex, _highlightMode>>

\* The points handed to addPoint under SpecHit: the corners of a square.
HitPointSet == {<<0, 0>>, <<10, 0>>, <<10, 10>>, <<0, 10>>}

\* The query points of the hit tests.
QuerySet == {<<5, 0>>, <<5, 5>>}

\* The epsilons handed to nearestVertex: 1, 5 and 6.
VertexEpsilonSet == {<<1, 1>>, <<5, 1>>, <<6, 1>>}

\* The epsilon handed to nearestEdge: 1/2.
EdgeEpsilonSet == {<<1, 2>>}

\* The minDistIndex values a caller passes: an index of a row (nearestVertex
\* returns one), 0 while there is no row.
MinDistIndexSet == 0..Max2(Len(Rows(poly_array)) - 1, 0)

NextHit ==
    \/ \E point \in HitPointSet : MayAdd(point, MaxHitPoints) /\ addPoint(point)
    \/ popPoint
    \/ \E point \in QuerySet, epsilon \in VertexEpsilonSet : nearestVertex(point, epsilon)
    \/ \E point \in QuerySet, epsilon \in EdgeEpsilonSet, m \in MinDistIndexSet,
          near_second \in BOOLEAN : nearestEdge(point, epsilon, m, near_second)

\* A shape drawn point by point and hit-tested in between.
SpecHit == Init /\ [][NextHit]_vars

(* ------------------------- shape type and path -------------------------- *)

\* The list the shape_type setter accepts.
ShapeTypes ==
    {"polygon", "trace", "rectangle", "point", "line", "circle", "linestrip"}

\* A setter whose membership test lets every value through.
ShapeTypeAcceptedAny(value) == TRUE

\* value in [...] of the setter.
ShapeTypeAccepted(value) == value \in ShapeTypes

\* if value is None: value = "polygon". The argument is None or Some(string).
ShapeTypeValue(value) == IF value = None THEN "polygon" ELSE value[1]

\* The shape types a caller passes: absent, the seven names, and one name
\* that is not in the list.
TypeArgSet == {None} \cup {Some(t) : t \in ShapeTypes \cup {"ellipse"}}

\* _shape_type before the first successful assignment: the attribute does
\* not exist.
Unset == "<unset>"

\* Shape(shape_type=value). __init__ assigns self.shape_type through the
\* setter; when the setter raises, __init__ raises and no shape exists.
InitTyped ==
    /\ points = <<>>
    /\ poly_array = None
    /\ _closed = FALSE
    /\ prev_val = None
    /\ _highlightIndex = None
    /\ _highlightMode = NEAR_VERTEX
    /\ op = "__init__"
    /\ ret = None
    /\ logged = FALSE
    /\ \E value \in TypeArgSet :
          /\ args = [shape_type |-> value]
          /\ IF ShapeTypeAccepted(ShapeTypeValue(value))
             THEN shape_type = ShapeTypeValue(value) /\ err = "none"
             ELSE shape_type = Unset /\ err = "ValueError"

\* A shape exists: its construction did not raise.
Constructed == ~(op = "__init__" /\ err # "none")

\* shape.shape_type = value.
shape_type_setter(value) ==
    /\ IF ShapeTypeAccepted(ShapeTypeValue(value))
       THEN /\ shape_type' = ShapeTypeValue(value)
            /\ Returned("shape_type", [value |-> value], None)
       ELSE /\ UNCHANGED shape_type
            /\ Raised("shape_type", [value |-> value], "ValueError")
    /\ UNCHANGED <<points, poly_array, _closed, prev_val,
                   _highlightIndex, _highlightMode>>

\* QRectF(x, y, w, h).
QRectF(x, y, w, h) == [x |-> x, y |-> y, w |-> w, h |-> h]

getRectFromLine(pt1, pt2) ==
    QRectF(pt1[1], pt1[2], pt2[1] - pt1[1], pt2[2] - pt1[2])

\* The square QRectF(c.x - d, c.y - d, 2d, 2d) around c, kept as c and d * d
\* so that d (a square root) need not be computed; None unless the line has
\* two points.
getCircleRectFromLine(line) ==
    IF Len(line) # 2
    THEN None
    ELSE Some([c |-> line[1], d2 |-> Dist2(line[1], line[2])])

\* A QPainterPath is the sequence of its elements.
MoveToElement(p) == [t |-> "moveTo", p |-> p]
LineToElement(p) == [t |-> "lineTo", p |-> p]

\* QPainterPath.lineTo(p) on a path with a current position: a line to the
\* current position adds nothing.
lineTo(path, p) ==
    IF path[Len(path)].p = p THEN path ELSE Append(path, LineToElement(p))

\* QPainterPath.addRect(r): nothing for a null rectangle, else the closed
\* outline from its top left corner.
addRect(path, r) ==
    IF r.w = 0 /\ r.h = 0
    THEN path
    ELSE path \o << MoveToElement(<<r.x, r.y>>),
                    LineToElement(<<r.x + r.w, r.y>>),
                    LineToElement(<<r.x + r.w, r.y + r.h>>),
                    LineToElement(<<r.x, r.y + r.h>>),
                    LineToElement(<<r.x, r.y>>) >>

\* QPainterPath.addEllipse(r) for the square of getCircleRectFromLine:
\* nothing for a null rectangle, else one ellipse.
addEllipse(path, r) ==
    IF r[1].d2 = 0
    THEN path
    ELSE Append(path, [t |-> "ellipse", c |-> r[1].c, d2 |-> r[1].d2])

\* for p in self.points[1:]: path.lineTo(p), from position k on.
RECURSIVE LinesFrom(_, _, _)
LinesFrom(path, pts, k) ==
    IF k > Len(pts) THEN path ELSE LinesFrom(lineTo(path, pts[k]), pts, k + 1)

\* The final else of makePath: QPainterPath(self.points[0]) and a lineTo for
\* each further point. The closed flag is not read.
PolyPath(pts) == LinesFrom(<<MoveToElement(pts[1])>>, pts, 2)

\* self.points[0] of the final else raises IndexError on an empty list.
MakePathRaises == shape_type \notin {"rectangle", "circle"} /\ points = <<>>

\* The path makePath returns when it returns.
PathOf ==
    IF shape_type = "rectangle"
    THEN IF Len(points) = 2
         THEN addRect(<<>>, getRectFromLine(points[1], points[2]))
         ELSE <<>>
    ELSE IF shape_type = "circle"
    THEN IF Len(points) = 2
         THEN addEllipse(<<>>, getCircleRectFromLine(points))
         ELSE <<>>
    ELSE PolyPath(points)

makePath ==
    /\ IF MakePathRaises
       THEN Raised("makePath", <<>>, "IndexError")
       ELSE Returned("makePath", <<>>, Some(PathOf))
    /\ UNCHANGED <<points, poly_array, _closed>>
    /\ Rest

NextPath ==
    \/ Constructed /\ \E point \in PointSet :
           MayAdd(point, MaxPoints) /\ addPoint(point)
    \/ Constructed /\ popPoint
    \/ Constructed /\ close
    \/ Constructed /\ setOpen
    \/ Constructed /\ \E value \in TypeArgSet : shape_type_setter(value)
    \/ Constructed /\ makePath
    \/ Constructed /\ paint

\* A shape constructed with any shape type, drawn, retyped and asked for its
\* path.
SpecPath == InitTyped /\ [][NextPath]_vars

(* ------------------------------ highlight ------------------------------- *)

\* A faulty highlightVertex that forgets the action.
highlightVertexIndexOnly(i, action) ==
    /\ _highlightIndex' = Some(i)
    /\ UNCHANGED _highlightMode
    /\ UNCHANGED <<points, poly_array, _closed, prev_val, shape_type>>
    /\ Returned("highlightVertex", [i |-> i, action |-> action], None)

highlightVertex(i, action) ==
    /\ _highlightIndex' = Some(i)
    /\ _highlightMode' = action
    /\ UNCHANGED <<points, poly_array, _closed, prev_val, shape_type>>
    /\ Returned("highlightVertex", [i |-> i, action |-> action], None)

highlightClear ==
    /\ _highlightIndex' = None
    /\ UNCHANGED _highlightMode
    /\ UNCHANGED <<points, poly_array, _closed, prev_val, shape_type>>
    /\ Returned("highlightClear", <<>>, None)

\* The points handed to addPoint and insertPoint under SpecHighlight.
HighlightPointSet == {<<0, 0>>, <<10, 0>>}

\* The indices of the current point list: what a caller that highlights an
\* existing vertex passes to highlightVertex.
ValidIndexSet == 0..(Len(points) - 1)

NextHighlight ==
    \/ \E point \in HighlightPointSet :
          MayAdd(point, MaxPoints) /\ addPoint(point)
    \/ popPoint
    \/ \E i \in IndexSet, point \in HighlightPointSet :
          Len(points) < MaxPoints /\ insertPoint(i, point)
    \/ \E i \in IndexSet : removePoint(i)
    \/ \E i \in ValidIndexSet, action \in {NEAR_VERTEX, MOVE_VERTEX} :
          highlightVertex(i, action)
    \/ highlightClear

\* A shape edited point by point while vertices are highlighted and the
\* highlight is cleared.
SpecHighlight == Init /\ [][NextHighlight]_vars

(* ------------------------------- claims -------------------------------- *)

\* The operations C1 names.
MutatingOps ==
    {"addPoint", "popPoint", "insertPoint", "removePoint", "moveBy", "moveVertexBy"}

\* C1: after every operation of a sequence of addPoint, popPoint, insertPoint,
\* removePoint, moveBy and moveVertexBy on a new Shape, coords has as many
\* rows as points has elements and row i is (points[i].x, points[i].y).
\* Checked under SpecMutate, whose steps are those six operations.
C1_CoordsMirrorPoints ==
    op \in MutatingOps => Mirror(points, poly_array)

\* C2: on a shape built by addPoint calls, insertPoint(i, p) for 0 <= i <=
\* len(points) followed by removePoint(i) leaves points and coords as they
\* were before the insertPoint. Stated on the removePoint step of
\* SpecRoundTrip: there the list before the insert is the current list
\* without position i, and the coords before it mirrored that list.
C2_InsertRemoveRoundTrip ==
    [][(op = "insertPoint" /\ op' = "removePoint" /\ args'.i = args.i)
        => LET before == RemoveAt(points, args.i + 1)
           IN /\ points' = before
              /\ Rows(poly_array') = RowsOf(before)
              /\ (before = <<>> => poly_array' = poly_array)]_vars

\* C3: insertPoint(i, p) with i outside [0, len(points)] raises IndexError
\* and changes neither points nor coords.
C3_InsertOutOfRangeFails ==
    [][(op' = "insertPoint" /\ (args'.i < 0 \/ args'.i > Len(points)))
        => /\ err' = "IndexError"
           /\ points' = points
           /\ poly_array' = poly_array]_vars

\* An index that is no position of points, or none of the coords rows.
RemoveOutOfRange(i) ==
    \/ ~PyIndexOK(i, Len(points))
    \/ poly_array # None /\ ~PyIndexOK(i, Len(poly_array[1]))

\* C4: removePoint(i) with an out-of-range index never raises and changes
\* nothing: points, coords and the closed flag stay as they were.
C4_RemoveOutOfRangeNoOp ==
    [][(op' = "removePoint" /\ RemoveOutOfRange(args'.i))
        => /\ err' = "none"
           /\ points' = points
           /\ poly_array' = poly_array
           /\ _closed' = _closed]_vars

\* C5: shape[k] = v on a shape whose coords mirror its points leaves coords
\* row k equal to (v.x, v.y).
C5_SetItemKeepsCoords ==
    [][(op' = "__setitem__" /\ err' = "none" /\ Mirror(points, poly_array))
        => /\ Len(Rows(poly_array')) = Len(points')
           /\ Rows(poly_array')[PyPos(args'.key, Len(points'))] = Row(args'.value)]_vars

\* C6: addPoint(p) on a shape with at least one point and p = points[0] sets
\* closed and appends nothing: points and coords are unchanged.
C6_AddFirstPointCloses ==
    [][(op' = "addPoint" /\ points # <<>> /\ args'.point = points[1])
        => /\ _closed'
           /\ err' = "none"
           /\ points' = points
           /\ poly_array' = poly_array]_vars

\* C6 witness: the open triangle [(0,0), (10,0), (10,10)] after addPoint((0,0)).
C6_Witness ==
    /\ op = "addPoint"
    /\ args.point = <<0, 0>>
    /\ points = <<<<0, 0>>, <<10, 0>>, <<10, 10>>>>
    /\ Mirror(points, poly_array)
    /\ _closed

\* C7: popPoint never raises; on an empty shape it returns None and changes
\* nothing, otherwise it removes and returns the last point and removes the
\* last row of coords.
C7_PopPointTotal ==
    [][op' = "popPoint"
        => /\ err' = "none"
           /\ IF points = <<>>
              THEN /\ ret' = None
                   /\ points' = points
                   /\ poly_array' = poly_array
              ELSE /\ ret' = Some(points[Len(points)])
                   /\ points' = DropLast(points)
                   /\ Rows(poly_array') = DropLast(Rows(poly_array))]_vars

\* The first position (1-based) of rows at the least squared distance from q.
FirstNearest(rows, q) ==
    CHOOSE k \in 1..Len(rows) :
        /\ \A j \in 1..Len(rows) : Dist2(rows[j], q) >= Dist2(rows[k], q)
        /\ \A j \in 1..(k - 1) : Dist2(rows[j], q) > Dist2(rows[k], q)

\* C8: nearestVertex(point, epsilon) on a shape with at least one point, for
\* k the smallest index at the least squared distance from point to
\* coords[k]: the result is (k, None) if that distance is strictly below
\* epsilon, and (None, k) otherwise.
C8_NearestVertexFirstArgMin ==
    (op = "nearestVertex" /\ Len(points) >= 1)
        => /\ err = "none"
           /\ LET rows == Rows(poly_array)
                  k == FirstNearest(rows, args.point)
                  e == args.epsilon
              IN IF Dist2(rows[k], args.point) * e[2] * e[2] < e[1] * e[1]
                 THEN ret = <<Some(k - 1), None>>
                 ELSE ret = <<None, Some(k - 1)>>

\* The square of the examples, [(0,0), (10,0), (10,10), (0,10)].
Square == <<<<0, 0>>, <<10, 0>>, <<10, 10>>, <<0, 10>>>>

\* C8 witness: the square, query (5,5), epsilon 1: all four corners tie and
\* the result is (None, 0).
C8_Witness ==
    /\ op = "nearestVertex"
    /\ points = Square
    /\ poly_array = Some(Square)
    /\ args.point = <<5, 5>>
    /\ args.epsilon = <<1, 1>>
    /\ ret = <<None, Some(0)>>

\* The call of C9 on the closed square with nothing cached.
C9_Call ==
    /\ op' = "nearestEdge"
    /\ prev_val = None
    /\ _closed
    /\ points = Square
    /\ poly_array = Some(Square)
    /\ args'.point = <<5, 0>>
    /\ args'.epsilon = <<1, 2>>
    /\ args'.minDistIndex = 0

\* C9 as claimed: on the closed square, nearestEdge((5,0), 0.5, 0) with no
\* cached result returns 0 for the bottom edge points[0]-points[1].
C9_BottomEdgeIsZero ==
    [][C9_Call => ret' = Some(0)]_vars

\* C9 as amended: on the closed square, nearestEdge((5,0), 0.5, 0) with no
\* cached result returns 1: the bottom edge points[0]-points[1] is reported
\* by the index of its end vertex.
C9_BottomEdgeIsOne ==
    [][C9_Call => (err' = "none" /\ ret' = Some(1))]_vars

\* C9 witness: that call has returned 1 (the clock test was false).
C9_Witness ==
    /\ op = "nearestEdge"
    /\ ~args.near_second
    /\ args.point = <<5, 0>>
    /\ args.epsilon = <<1, 2>>
    /\ args.minDistIndex = 0
    /\ _closed
    /\ points = Square
    /\ poly_array = Some(Square)
    /\ ret = Some(1)

\* An edge examined by the search around m lies within epsilon of point.
SomeExaminedEdgeWithin(rows, point, epsilon, m) ==
    \E s \in 0..(HalfLen(rows) - 1) :
        \/ distancetoline_le(point, LinePos(rows, m + s), epsilon)
        \/ distancetoline_le(point, LineNeg(rows, m - s), epsilon)

\* C10: a nearestEdge call that returns, returns an index only if an edge
\* examined by its search is within epsilon of the query point in the
\* current coords, and None whenever no examined edge is.
C10_EdgeOnlyIfWithinEpsilon ==
    (op = "nearestEdge" /\ err = "none")
        => (ret # None
              => SomeExaminedEdgeWithin(Rows(poly_array), args.point,
                                        args.epsilon, args.minDistIndex))

\* The shape types whose path is a polyline through the points.
PolylineTypes == {"polygon", "trace", "linestrip", "line", "point"}

\* The polyline C11 describes: through every point in order and, when the
\* shape is closed, back to the first point.
ClaimedPath(pts, closed) ==
    IF closed THEN lineTo(PolyPath(pts), pts[1]) ELSE PolyPath(pts)

\* C11: for the types polygon, trace, linestrip, line and point, makePath on
\* a shape with points returns the polyline through all points in order,
\* which ends with a closing segment from the last point back to points[0]
\* exactly when the shape is closed.
C11_PathClosesWhenClosed ==
    (op = "makePath" /\ shape_type \in PolylineTypes /\ points # <<>>) =>
        /\ err = "none"
        /\ ret = Some(ClaimedPath(points, _closed))

\* C13, the state part: a constructed shape has one of the seven types, an
\* absent type at construction gives polygon, and construction with any
\* other value raises ValueError.
C13_TypeIsValid ==
    /\ Constructed => shape_type \in ShapeTypes
    /\ op = "__init__" =>
          IF args.shape_type = None
          THEN err = "none" /\ shape_type = "polygon"
          ELSE IF args.shape_type[1] \in ShapeTypes
          THEN err = "none" /\ shape_type = args.shape_type[1]
          ELSE err = "ValueError"

\* C13, the step part: an assignment of an absent type gives polygon, of one
\* of the seven names gives that name, and of any other value raises
\* ValueError and leaves the type as it was.
C13_AssignmentChecked ==
    op' = "shape_type" =>
        IF args'.value = None
        THEN err' = "none" /\ shape_type' = "polygon"
        ELSE IF args'.value[1] \in ShapeTypes
        THEN err' = "none" /\ shape_type' = args'.value[1]
        ELSE err' = "ValueError" /\ shape_type' = shape_type

\* C13: in every reachable state the shape type is one of polygon, trace,
\* rectangle, point, line, circle, linestrip, an absent value standing for
\* polygon; any other value at construction or assignment raises the
\* invalid-shape-type error (ValueError), and after a failed assignment the
\* shape keeps its previous valid type.
C13_ShapeTypeValidated == []C13_TypeIsValid /\ [][C13_AssignmentChecked]_vars

\* A circle with points on which the assignment of an unknown type has just
\* failed.
C13_Witness ==
    /\ op = "shape_type" /\ err = "ValueError"
    /\ args.value = Some("ellipse")
    /\ shape_type = "circle" /\ points # <<>>

\* C19: makePath returns a path without raising in every reachable state; for
\* rectangle and circle with a point count other than 2 the path is empty,
\* and for the other types with zero points an empty path is returned.
C19_MakePathNeverRaises ==
    op = "makePath" =>
        /\ err = "none"
        /\ (shape_type \in {"rectangle", "circle"} /\ Len(points) # 2)
              => ret = Some(<<>>)
        /\ (shape_type \notin {"rectangle", "circle"} /\ points = <<>>)
              => ret = Some(<<>>)

\* What neither highlight operation may change.
HighlightFrame == UNCHANGED <<points, poly_array, _closed, shape_type>>

\* C12, one step: highlightVertex(i, mode) leaves the shape highlighted with
\* index i and mode mode, highlightClear leaves it with no highlight index;
\* both leave points, coords, the closed flag and the shape type alone.
C12_HighlightStep ==
    /\ op' = "highlightVertex" =>
          /\ _highlightIndex' = Some(args'.i)
          /\ _highlightMode' = args'.action
          /\ HighlightFrame
    /\ op' = "highlightClear" =>
          /\ _highlightIndex' = None
          /\ HighlightFrame

\* C12: from any prior state highlightVertex(i, mode) puts the shape in the
\* state highlighted(i, mode) and highlightClear() puts it in the state
\* unhighlighted (highlight index absent); neither changes points, coords,
\* the closed flag or the shape type.
C12_HighlightSetsAndClears == [][C12_HighlightStep]_vars

\* A shape with points whose MOVE_VERTEX highlight has just been cleared.
C12_Witness ==
    /\ op = "highlightClear"
    /\ _highlightIndex = None
    /\ _highlightMode = MOVE_VERTEX
    /\ points # <<>>

\* C18: in every reachable state the highlight index is absent or a valid
\* index into points, across any interleaving of highlightVertex,
\* highlightClear, addPoint, popPoint, insertPoint and removePoint in which
\* highlightVertex is only called with an index valid at the time of the
\* call (the steps of SpecHighlight).
C18_HighlightIndexValid ==
    _highlightIndex = None \/ _highlightIndex[1] \in 0..(Len(points) - 1)

\* The points of pts, each moved by offset.
Shifted(pts, offset) == [k \in 1..Len(pts) |-> PointAdd(pts[k], offset)]

\* C14, one step: moveBy(offset) returns, every point and every coords row
\* is the old one plus offset, and the closed flag is as before.
C14_MoveByStep ==
    op' = "moveBy" =>
        /\ err' = "none"
        /\ points' = Shifted(points, args'.offset)
        /\ Rows(poly_array') = Shifted(Rows(poly_array), args'.offset)
        /\ _closed' = _closed

\* C14: in every reachable state, a newly constructed shape with no points
\* included, moveBy(offset) completes and replaces every points[i] by
\* points[i] + offset and every coords row by row + offset, leaving the
\* number and order of points and the closed flag unchanged.
C14_MoveByShiftsAll == [][C14_MoveByStep]_vars

\* The edge of the closed polygon pts that ends at vertex k (0-based): it
\* joins pts[(k - 1) mod n] to pts[k], the edge ending at 0 being the
\* wraparound edge from the last point to the first.
EdgeEndingAt(pts, k) ==
    <<pts[((k - 1) % Len(pts)) + 1], pts[(k % Len(pts)) + 1]>>

\* C15, one step: on a closed shape with at least 3 points whose coords
\* mirror the points, called with no cached result, nearestEdge returns an
\* index when one of the two edges at vertex m is within epsilon.
C15_AdjacentStep ==
    (/\ op' = "nearestEdge"
     /\ prev_val = None
     /\ _closed
     /\ Len(points) >= 3
     /\ Mirror(points, poly_array)
     /\ \/ distancetoline_le(args'.point,
                              EdgeEndingAt(points, args'.minDistIndex),
                              args'.epsilon)
        \/ distancetoline_le(args'.point,
                              EdgeEndingAt(points, args'.minDistIndex + 1),
                              args'.epsilon))
    => (err' = "none" /\ ret' # None)

\* C15: nearestEdge tests both edges adjacent to the start vertex: for a
\* closed shape with n >= 3 points and any m in 0..n-1, if the edge
\* (points[m-1], points[m]) or the edge (points[m], points[(m+1) mod n]) is
\* within epsilon of the query point, nearestEdge called with no cached
\* previous result returns a non-null index.
C15_AdjacentEdgesTested == [][C15_AdjacentStep]_vars

\* C16, one step: a nearestEdge call that searched and found nothing ran
\* every step s in 0..floor(n/2)-1; at step s its backward candidate is the
\* edge ending at vertex (m - s) mod n and its forward candidate the edge
\* ending at vertex (m + s) mod n.
C16_CandidateStep ==
    (/\ op' = "nearestEdge"
     /\ ~(args'.near_second /\ prev_val # None)
     /\ err' = "none" /\ ret' = None
     /\ Rows(poly_array) # <<>>)
    => \A s \in 0..(HalfLen(Rows(poly_array)) - 1) :
          /\ LineNeg(Rows(poly_array), args'.minDistIndex - s)
                = EdgeEndingAt(Rows(poly_array), args'.minDistIndex - s)
          /\ LinePos(Rows(poly_array), args'.minDistIndex + s)
                = EdgeEndingAt(Rows(poly_array), args'.minDistIndex + s)

\* C16: at search step s (0 <= s < floor(n/2)) the backward candidate of
\* nearestEdge is the edge ending at vertex (m - s) mod n and the forward
\* candidate the edge ending at vertex (m + s) mod n, the edge ending at k
\* joining points[(k-1) mod n] to points[k]; for every m in 0..n-1, steps
\* where the backward index reaches 0 or becomes negative included.
C16_CandidatesWrapAround == [][C16_CandidateStep]_vars

\* C17: every non-null index nearestEdge returns lies in 0..len(points)-1
\* for the current point list, for every m in 0..len(points)-1 and in every
\* reachable state, after points were removed since an earlier nearestEdge
\* call included.
C17_EdgeIndexInRange ==
    (op = "nearestEdge" /\ err = "none" /\ ret # None)
        => ret[1] \in 0..(Len(points) - 1)

=============================================================================
